---- MODULE Spec2Model ----
(***************************************************************************)
(* Model of the stress-test engine of CuteCatNet                           *)
(* (src-tauri/src/stresser.rs) together with the bridge commands of        *)
(* src-tauri/src/main.rs that drive it.                                    *)
(*                                                                         *)
(* Time is the monotonic clock sampled in whole seconds (variable now).    *)
(* Strings that the code parses are sequences of one-character strings.    *)
(* The floating point fields of TestMetrics (latency, jitter, loss,        *)
(* throughput) and its timestamp are not modelled; the packet counters     *)
(* are.                                                                    *)
(***************************************************************************)
EXTENDS Integers, Sequences, FiniteSets, TLC

(***************************************************************************)
(* Bounds of the exploration.                                              *)
(***************************************************************************)
\* tasks racing without the clock
MaxTests == 2
MaxSentRace == 1
MaxTimeRace == 0
\* a second test after the cooldown of the first
MaxTestsRestart == 2
MaxSentRestart == 0
MaxTimeRestart == 6
ClockStepRestart == 5
\* one test, second by second
MaxSentCool == 1
MaxTimeCool == 6
\* one test over the dead man's switch interval
MaxSentDms == 1
MaxTimeDms == 40
ClockStepDms == 10
\* one test sending up to the circuit breaker, the clock advancing once
MaxSentLong == 102
MaxRecvLong == 1
MaxTimeLong == 1
\* perform_scan: host bits of the subnet, frames read by the receive task
HostBits == 2
MaxPackets == 3

(***************************************************************************)
(* SafetyLimits::default and the constants of the loop.                    *)
(***************************************************************************)
max_packets_per_second == 1000
max_duration_seconds == 300
min_cooldown_seconds == 5
dead_mans_switch_interval_seconds == 30
BreakerMinSent == 100

(***************************************************************************)
(* Option<T>: None is the empty sequence, Some(x) the sequence <<x>>.      *)
(***************************************************************************)
None == <<>>
Some(x) == <<x>>

(***************************************************************************)
(* Ipv4Addr parsing (str::parse::<Ipv4Addr>): four decimal groups          *)
(* separated by '.', each of one to three digits, without a leading zero   *)
(* unless the group is "0", and of value at most 255.                      *)
(***************************************************************************)
Digits == {"0", "1", "2", "3", "4", "5", "6", "7", "8", "9"}

DigitVal(c) ==
    CASE c = "0" -> 0 [] c = "1" -> 1 [] c = "2" -> 2 [] c = "3" -> 3
      [] c = "4" -> 4 [] c = "5" -> 5 [] c = "6" -> 6 [] c = "7" -> 7
      [] c = "8" -> 8 [] c = "9" -> 9

RECURSIVE SplitDots(_)
SplitDots(s) ==
    IF \A i \in 1..Len(s) : s[i] # "."
    THEN <<s>>
    ELSE LET k == CHOOSE i \in 1..Len(s) :
                     s[i] = "." /\ \A j \in 1..(i-1) : s[j] # "."
         IN  <<SubSeq(s, 1, k-1)>> \o SplitDots(SubSeq(s, k+1, Len(s)))

RECURSIVE GroupValue(_)
GroupValue(g) ==
    IF g = <<>> THEN 0
    ELSE 10 * GroupValue(SubSeq(g, 1, Len(g)-1)) + DigitVal(g[Len(g)])

GroupOk(g) ==
    /\ Len(g) >= 1
    /\ Len(g) <= 3
    /\ \A i \in 1..Len(g) : g[i] \in Digits
    /\ (Len(g) > 1 => g[1] # "0")
    /\ GroupValue(g) <= 255

ParseIpv4(s) ==
    LET parts == SplitDots(s)
    IN  IF Len(parts) = 4 /\ \A i \in 1..4 : GroupOk(parts[i])
        THEN [i \in 1..4 |-> GroupValue(parts[i])]
        ELSE None

\* variant: the upper bound of 172.16.0.0/12 is off by one
is_private_ip_Wide(octets) ==
    IF octets[1] = 10 THEN TRUE
    ELSE IF octets[1] = 172 /\ (octets[2] >= 16 /\ octets[2] <= 32) THEN TRUE
    ELSE IF octets[1] = 192 /\ octets[2] = 168 THEN TRUE
    ELSE FALSE

is_private_ip(octets) ==
    IF octets[1] = 10 THEN TRUE
    ELSE IF octets[1] = 172 /\ (octets[2] >= 16 /\ octets[2] <= 31) THEN TRUE
    ELSE IF octets[1] = 192 /\ octets[2] = 168 THEN TRUE
    ELSE FALSE

validate_target_ip(ip) ==
    LET parsed_ip == ParseIpv4(ip)
    IN  IF parsed_ip = None THEN "InvalidTargetIp"
        ELSE IF ~is_private_ip(parsed_ip) THEN "InvalidTargetIp"
        ELSE "Ok"

\* variant: Medium maps to 60 packets per second
to_packets_per_second_Medium60(intensity) ==
    CASE intensity = "Low" -> 10
      [] intensity = "Medium" -> 60
      [] intensity = "High" -> 100

to_packets_per_second(intensity) ==
    CASE intensity = "Low" -> 10
      [] intensity = "Medium" -> 50
      [] intensity = "High" -> 100

(***************************************************************************)
(* Inputs of the bridge commands.                                          *)
(***************************************************************************)
TargetA == <<"1", "0", ".", "0", ".", "0", ".", "1">>
TargetB == <<"1", "9", "2", ".", "1", "6", "8", ".", "1", ".", "5", "0">>
TargetPublic == <<"8", ".", "8", ".", "8", ".", "8">>
TargetMalformed == <<"i", "n", "v", "a", "l", "i", "d">>

Config(ip, ty, i, d) ==
    [target_ip |-> ip, test_type |-> ty, intensity |-> i, duration_seconds |-> d]

Configs ==
    { Config(TargetA, "PingFlood", "Low", 1),
      Config(TargetB, "LatencyTest", "High", 300),
      Config(TargetB, "BandwidthTest", "Medium", 301),
      Config(TargetPublic, "PacketLoss", "Low", 301),
      Config(TargetMalformed, "PingFlood", "High", 10) }

Loops == 1..(IF MaxTests > MaxTestsRestart THEN MaxTests ELSE MaxTestsRestart)

\* quiet: the caller starts a test only once the tasks of the earlier tests
\* have ended
Profile(tests, sent, recv, time, step, quiet) ==
    [tests |-> tests, sent |-> sent, recv |-> recv, time |-> time,
     step |-> step, quiet |-> quiet]

Profiles ==
    { Profile(MaxTests, MaxSentRace, MaxSentRace, MaxTimeRace, 1, FALSE),
      Profile(MaxTestsRestart, MaxSentRestart, MaxSentRestart, MaxTimeRestart,
              ClockStepRestart, TRUE),
      Profile(1, MaxSentCool, MaxSentCool, MaxTimeCool, 1, FALSE),
      Profile(1, MaxSentDms, MaxSentDms, MaxTimeDms, ClockStepDms, FALSE),
      Profile(1, MaxSentLong, MaxRecvLong, MaxTimeLong, MaxTimeLong, FALSE) }

VARIABLES
    now,                \* monotonic clock, whole seconds
    current_test,       \* TestState.current_test : None or a TestResult
    metrics,            \* TestState.metrics
    last_confirmation,  \* TestState.last_confirmation
    cooldown_targets,   \* TestState.cooldown_targets : target_ip -> Instant
    cancel_tx,          \* StressTestEngine.cancel_tx : 0 (None) or the loop it cancels
    cancel,             \* value of the watch channel of each spawned loop
    loops,              \* the spawned tasks: position and private counters
    spawned,            \* number of tasks spawned so far
    cmd,                \* bridge command in flight (holds the engine mutex)
    ret,                \* what the bridge command completing in this step returned
    stopped,            \* stop_current_test has returned for a Running test
    limits,             \* exploration profile chosen at start
    scan                \* perform_scan: its locals and the receive task

vars == <<now, current_test, metrics, last_confirmation, cooldown_targets,
          cancel_tx, cancel, loops, spawned, cmd, ret, stopped, limits, scan>>

NoRet == [op |-> "none"]

\* HashMap::new()
EmptyMap == [k \in {} |-> 0]

\* no scan_network command has been issued
ScanIdle ==
    [pc |-> "idle", source_ipv4 |-> <<>>, source_mac |-> "", next |-> 0,
     found_devices |-> EmptyMap, receiver |-> "none", devices |-> EmptyMap,
     packets |-> 0, elapsed |-> 0, timed_out |-> FALSE, result |-> None]

TestMetricsDefault == [packets_sent |-> 0, packets_received |-> 0]

NoLoop ==
    [pc |-> "idle", config |-> Config(<<>>, "PingFlood", "Low", 0),
     start_time |-> 0, packets_sent |-> 0, packets_received |-> 0,
     err |-> "none"]

Init ==
    /\ now = 0
    /\ current_test = None
    /\ metrics = TestMetricsDefault
    /\ last_confirmation = 0
    /\ cooldown_targets = <<>>
    /\ cancel_tx = 0
    /\ cancel = [l \in Loops |-> FALSE]
    /\ loops = [l \in Loops |-> NoLoop]
    /\ spawned = 0
    /\ cmd = "idle"
    /\ ret = NoRet
    /\ stopped = "no"
    /\ limits \in Profiles
    /\ scan = ScanIdle

ErrorMessage(e) ==
    CASE e = "InvalidTargetIp" -> "Target IP is not in a private network range"
      [] e = "DeadMansSwitchTriggered" ->
             "Dead man's switch triggered - UI confirmation required"
      [] e = "UserCancelled" -> "Test cancelled by user"

(***************************************************************************)
(* The clock advances while every task waits in select! and no bridge      *)
(* command is in flight; it is not counted before the first test nor once  *)
(* no further test can run.                                                *)
(***************************************************************************)
ClockMayAdvance ==
    /\ now + limits.step <= limits.time
    /\ cmd = "idle"
    /\ \A l \in Loops : loops[l].pc \in {"idle", "select", "done"}
    /\ spawned > 0
    /\ \/ spawned < limits.tests
       \/ \E l \in Loops : loops[l].pc = "select"

(***************************************************************************)
(* validate_test_config.  t1 and t2 are the two readings of                *)
(* last_test_time.elapsed() (lines 225 and 226); the second is taken at    *)
(* most a second after the first.                                          *)
(***************************************************************************)
Verdict(k, n) == [kind |-> k, n |-> n]

\* variant: the cooldown check is missing
validate_test_config_NoCooldown(config, t1, t2) ==
    IF validate_target_ip(config.target_ip) # "Ok"
    THEN Verdict("InvalidTargetIp", 0)
    ELSE IF to_packets_per_second(config.intensity) > max_packets_per_second
    THEN Verdict("RateLimitExceeded", 0)
    ELSE IF config.duration_seconds > max_duration_seconds
    THEN Verdict("DurationTooLong", 0)
    ELSE IF current_test # None /\ current_test[1].status = "Running"
    THEN Verdict("TestAlreadyRunning", 0)
    ELSE Verdict("Ok", 0)

\* variant: the running-test check comes before the duration check
validate_test_config_RunningFirst(config, t1, t2) ==
    IF validate_target_ip(config.target_ip) # "Ok"
    THEN Verdict("InvalidTargetIp", 0)
    ELSE IF to_packets_per_second(config.intensity) > max_packets_per_second
    THEN Verdict("RateLimitExceeded", 0)
    ELSE IF current_test # None /\ current_test[1].status = "Running"
    THEN Verdict("TestAlreadyRunning", 0)
    ELSE IF config.duration_seconds > max_duration_seconds
    THEN Verdict("DurationTooLong", 0)
    ELSE IF /\ config.target_ip \in DOMAIN cooldown_targets
            /\ t1 - cooldown_targets[config.target_ip] < min_cooldown_seconds
    THEN Verdict("CooldownActive",
                 min_cooldown_seconds - (t2 - cooldown_targets[config.target_ip]))
    ELSE Verdict("Ok", 0)

validate_test_config(config, t1, t2) ==
    IF validate_target_ip(config.target_ip) # "Ok"
    THEN Verdict("InvalidTargetIp", 0)
    ELSE IF to_packets_per_second(config.intensity) > max_packets_per_second
    THEN Verdict("RateLimitExceeded", 0)
    ELSE IF config.duration_seconds > max_duration_seconds
    THEN Verdict("DurationTooLong", 0)
    ELSE IF current_test # None /\ current_test[1].status = "Running"
    THEN Verdict("TestAlreadyRunning", 0)
    ELSE IF /\ config.target_ip \in DOMAIN cooldown_targets
            /\ t1 - cooldown_targets[config.target_ip] < min_cooldown_seconds
    THEN Verdict("CooldownActive",
                 min_cooldown_seconds - (t2 - cooldown_targets[config.target_ip]))
    ELSE Verdict("Ok", 0)

NewTestResult(id, config) ==
    [test_id |-> id,
     target_ip |-> config.target_ip,
     test_type |-> config.test_type,
     intensity |-> config.intensity,
     duration_seconds |-> config.duration_seconds,
     start_time |-> now,
     end_time |-> None,
     final_metrics |-> None,
     status |-> "Running",
     error_message |-> None]

\* variant: the insertion drops the entries of the other targets
CooldownInsert_Replace(ip, t) ==
    [k \in {ip} |-> t]

CooldownInsert(ip, t) ==
    [k \in (DOMAIN cooldown_targets) \cup {ip} |->
        IF k = ip THEN t ELSE cooldown_targets[k]]

(***************************************************************************)
(* start_stress_test (bridge command start_stress_test).                   *)
(***************************************************************************)
\* variant: the cancellation channel is replaced before validation
StartRejected_DropsCancel(config, v) ==
    /\ ret' = [op |-> "start", config |-> config, res |-> v]
    /\ cancel_tx' = 0
    /\ UNCHANGED <<current_test, metrics, last_confirmation, cooldown_targets,
                   cancel, loops, spawned, stopped>>

StartRejected(config, v) ==
    /\ ret' = [op |-> "start", config |-> config, res |-> v]
    /\ UNCHANGED <<current_test, metrics, last_confirmation, cooldown_targets,
                   cancel_tx, cancel, loops, spawned, stopped>>

StartAccepted(config, v) ==
    LET id == spawned + 1
    IN  /\ spawned < limits.tests
        /\ cancel_tx' = id
        /\ cancel' = [cancel EXCEPT ![id] = FALSE]
        /\ current_test' = Some(NewTestResult(id, config))
        /\ metrics' = TestMetricsDefault
        /\ last_confirmation' = now
        /\ cooldown_targets' = CooldownInsert(config.target_ip, now)
        /\ loops' = [loops EXCEPT ![id] = [NoLoop EXCEPT !.pc = "spawned",
                                                         !.config = config]]
        /\ spawned' = id
        /\ stopped' = "no"
        /\ ret' = [op |-> "start", config |-> config, res |-> v]

StartStressTest(config) ==
    /\ cmd = "idle"
    /\ limits.quiet => \A l \in Loops : loops[l].pc \in {"idle", "done"}
    /\ \E t2 \in {now} \cup (IF limits.step = 1 THEN {now + 1} ELSE {}) :
          LET v == validate_test_config(config, now, t2)
          IN  /\ (t2 # now => ClockMayAdvance /\ v.kind = "CooldownActive")
              /\ now' = t2
              /\ IF v.kind = "Ok"
                 THEN StartAccepted(config, v)
                 ELSE StartRejected(config, v)
    /\ UNCHANGED <<cmd, limits, scan>>

(***************************************************************************)
(* stop_current_test (bridge command stop_stress_test): the cancellation   *)
(* is raised, then the state write lock is awaited.                        *)
(***************************************************************************)
StopSignal ==
    /\ cmd = "idle"
    /\ cmd' = "stop"
    /\ cancel' = IF cancel_tx # 0 THEN [cancel EXCEPT ![cancel_tx] = TRUE]
                 ELSE cancel
    /\ stopped' = IF current_test # None /\ current_test[1].status = "Running"
                  THEN "pending" ELSE stopped
    /\ ret' = NoRet
    /\ UNCHANGED <<now, current_test, metrics, last_confirmation,
                   cooldown_targets, cancel_tx, loops, spawned, limits, scan>>

\* variant: stop_current_test takes the current test away
StopWrite_Clears ==
    /\ cmd = "stop"
    /\ cmd' = "idle"
    /\ current_test' = None
    /\ stopped' = IF stopped = "pending" THEN "yes" ELSE stopped
    /\ ret' = [op |-> "stop", res |-> "Ok"]
    /\ UNCHANGED <<now, metrics, last_confirmation, cooldown_targets,
                   cancel_tx, cancel, loops, spawned, limits, scan>>

StopWrite ==
    /\ cmd = "stop"
    /\ cmd' = "idle"
    /\ current_test' =
          IF current_test # None
          THEN [current_test EXCEPT ![1].status = "Completed",
                                    ![1].end_time = Some(now),
                                    ![1].final_metrics = Some(metrics)]
          ELSE current_test
    /\ stopped' = IF stopped = "pending" THEN "yes" ELSE stopped
    /\ ret' = [op |-> "stop", res |-> "Ok"]
    /\ UNCHANGED <<now, metrics, last_confirmation, cooldown_targets,
                   cancel_tx, cancel, loops, spawned, limits, scan>>

(***************************************************************************)
(* confirm_alive and get_current_status; the latter is shown holding its   *)
(* read guard on the state.                                                *)
(***************************************************************************)
\* bridge command validate_stress_target
ValidateStressTarget(ip) ==
    /\ cmd = "idle"
    /\ ret' = [op |-> "validate", ip |-> ip, res |-> validate_target_ip(ip)]
    /\ UNCHANGED <<now, current_test, metrics, last_confirmation,
                   cooldown_targets, cancel_tx, cancel, loops, spawned, cmd,
                   stopped, limits, scan>>

ConfirmAlive ==
    /\ cmd = "idle"
    /\ last_confirmation # now
    /\ last_confirmation' = now
    /\ ret' = [op |-> "confirm"]
    /\ UNCHANGED <<now, current_test, metrics, cooldown_targets, cancel_tx,
                   cancel, loops, spawned, cmd, stopped, limits, scan>>

StatusAcquire ==
    /\ cmd = "idle"
    /\ cmd' = "status"
    /\ ret' = NoRet
    /\ UNCHANGED <<now, current_test, metrics, last_confirmation,
                   cooldown_targets, cancel_tx, cancel, loops, spawned,
                   stopped, limits, scan>>

\* variant: get_current_status returns its result but keeps its guards
StatusReturn_KeepsGuard ==
    /\ cmd = "status"
    /\ cmd' = "status"
    /\ ret' = [op |-> "status",
               res |-> IF current_test # None THEN current_test[1].status
                       ELSE "Idle"]
    /\ UNCHANGED <<now, current_test, metrics, last_confirmation,
                   cooldown_targets, cancel_tx, cancel, loops, spawned,
                   stopped, limits, scan>>

StatusReturn ==
    /\ cmd = "status"
    /\ cmd' = "idle"
    /\ ret' = [op |-> "status",
               res |-> IF current_test # None THEN current_test[1].status
                       ELSE "Idle"]
    /\ UNCHANGED <<now, current_test, metrics, last_confirmation,
                   cooldown_targets, cancel_tx, cancel, loops, spawned,
                   stopped, limits, scan>>

(***************************************************************************)
(* run_stress_test_loop and the task that start_stress_test spawns.        *)
(* Positions of a task: spawned, select (waiting in select!), dms (waiting *)
(* for the read lock of the dead man's switch check), probe (awaiting      *)
(* send_ping), publish (waiting for the write lock of the metrics update), *)
(* finalize (waiting for the write lock after break), error (the loop      *)
(* returned Err), done.                                                    *)
(***************************************************************************)
TickPeriodMs(pps) == 1000 \div pps

PublishEvery(pps) == IF pps \div 10 > 1 THEN pps \div 10 ELSE 1

\* variant: the two counters are stored in each other's field
update_metrics_Swapped(m, sent, received) ==
    [m EXCEPT !.packets_sent = received, !.packets_received = sent]

update_metrics(m, sent, received) ==
    [m EXCEPT !.packets_sent = sent, !.packets_received = received]

\* the k-th tick of interval() completes k periods after the first one
TickDue(l) ==
    loops[l].packets_sent
        * TickPeriodMs(to_packets_per_second(loops[l].config.intensity))
      <= (now - loops[l].start_time) * 1000

\* variant: the loop already stops at packets_sent = 100
CircuitBreaker_AtMin(sent, received) ==
    sent >= BreakerMinSent /\ 10 * received < sent

CircuitBreaker(sent, received) ==
    sent > BreakerMinSent /\ 10 * received < sent

AfterBreaker(sent, received) ==
    IF CircuitBreaker(sent, received) THEN "finalize" ELSE "select"

LoopUnchanged ==
    /\ ret' = NoRet
    /\ UNCHANGED <<now, cooldown_targets, cancel_tx, cancel, spawned, cmd,
                   stopped, limits, scan>>

LoopBegin(l) ==
    /\ loops[l].pc = "spawned"
    /\ loops' = IF ParseIpv4(loops[l].config.target_ip) = None
                THEN [loops EXCEPT ![l].pc = "error",
                                   ![l].err = "InvalidTargetIp"]
                ELSE [loops EXCEPT ![l].pc = "select",
                                   ![l].start_time = now]
    /\ UNCHANGED <<current_test, metrics, last_confirmation>>
    /\ LoopUnchanged

DeadMansSwitchExpired ==
    now - last_confirmation > dead_mans_switch_interval_seconds

\* variant: the tick looks at the dead man's switch first
LoopTick_DmsFirst(l) ==
    /\ loops[l].pc = "select"
    /\ TickDue(l)
    /\ loops' =
          IF DeadMansSwitchExpired
          THEN [loops EXCEPT ![l].pc = "error",
                             ![l].err = "DeadMansSwitchTriggered"]
          ELSE IF now - loops[l].start_time >= loops[l].config.duration_seconds
          THEN [loops EXCEPT ![l].pc = "finalize"]
          ELSE IF cancel[l]
          THEN [loops EXCEPT ![l].pc = "error", ![l].err = "UserCancelled"]
          ELSE [loops EXCEPT ![l].pc = "dms"]
    /\ \/ loops'[l].pc # "dms"
       \/ loops[l].packets_sent < limits.sent
    /\ UNCHANGED <<current_test, metrics, last_confirmation>>
    /\ LoopUnchanged

LoopTick(l) ==
    /\ loops[l].pc = "select"
    /\ TickDue(l)
    /\ loops' =
          IF now - loops[l].start_time >= loops[l].config.duration_seconds
          THEN [loops EXCEPT ![l].pc = "finalize"]
          ELSE IF cancel[l]
          THEN [loops EXCEPT ![l].pc = "error", ![l].err = "UserCancelled"]
          ELSE [loops EXCEPT ![l].pc = "dms"]
    /\ \/ loops'[l].pc # "dms"
       \/ loops[l].packets_sent < limits.sent
       \/ DeadMansSwitchExpired
    /\ UNCHANGED <<current_test, metrics, last_confirmation>>
    /\ LoopUnchanged

LoopCancelChanged(l) ==
    /\ loops[l].pc = "select"
    /\ cancel[l]
    /\ loops' = [loops EXCEPT ![l].pc = "error", ![l].err = "UserCancelled"]
    /\ UNCHANGED <<current_test, metrics, last_confirmation>>
    /\ LoopUnchanged

LoopDeadMansSwitch(l) ==
    /\ loops[l].pc = "dms"
    /\ IF DeadMansSwitchExpired
       THEN loops' = [loops EXCEPT ![l].pc = "error",
                                   ![l].err = "DeadMansSwitchTriggered"]
       ELSE loops' = [loops EXCEPT ![l].pc = "probe"]
    /\ UNCHANGED <<current_test, metrics, last_confirmation>>
    /\ LoopUnchanged

ProbeCounts(test_type, ok, sent, received) ==
    CASE test_type \in {"PingFlood", "LatencyTest"} ->
             [sent |-> sent + 1, received |-> IF ok THEN received + 1 ELSE received]
      [] test_type = "BandwidthTest" ->
             [sent |-> sent + 1, received |-> IF ok THEN received + 1 ELSE received]
      [] test_type = "PacketLoss" ->
             [sent |-> sent + 1, received |-> IF ok THEN received + 1 ELSE received]

LoopProbe(l, ok) ==
    /\ loops[l].pc = "probe"
    /\ (ok => loops[l].packets_received < limits.recv)
    /\ LET c == ProbeCounts(loops[l].config.test_type, ok,
                            loops[l].packets_sent, loops[l].packets_received)
           pps == to_packets_per_second(loops[l].config.intensity)
       IN  loops' = [loops EXCEPT
                ![l].packets_sent = c.sent,
                ![l].packets_received = c.received,
                ![l].pc = IF c.sent % PublishEvery(pps) = 0 THEN "publish"
                          ELSE AfterBreaker(c.sent, c.received)]
    /\ UNCHANGED <<current_test, metrics, last_confirmation>>
    /\ LoopUnchanged

LoopPublish(l) ==
    /\ loops[l].pc = "publish"
    /\ cmd # "status"
    /\ metrics' = update_metrics(metrics, loops[l].packets_sent,
                                 loops[l].packets_received)
    /\ loops' = [loops EXCEPT ![l].pc = AfterBreaker(loops[l].packets_sent,
                                                     loops[l].packets_received)]
    /\ UNCHANGED <<current_test, last_confirmation>>
    /\ LoopUnchanged

LoopFinalize(l) ==
    /\ loops[l].pc = "finalize"
    /\ cmd # "status"
    /\ metrics' = update_metrics(metrics, loops[l].packets_sent,
                                 loops[l].packets_received)
    /\ current_test' =
          IF current_test # None
          THEN [current_test EXCEPT ![1].status = "Completed",
                                    ![1].end_time = Some(now),
                                    ![1].final_metrics = Some(metrics')]
          ELSE current_test
    /\ loops' = [loops EXCEPT ![l].pc = "done"]
    /\ UNCHANGED last_confirmation
    /\ LoopUnchanged

\* the error handler of the spawned task: try_write fails while a guard is held
TryWriteSucceeds == cmd # "status"

LoopError(l) ==
    /\ loops[l].pc = "error"
    /\ current_test' =
          IF TryWriteSucceeds /\ current_test # None
          THEN [current_test EXCEPT
                   ![1].status = "Failed",
                   ![1].error_message = Some(ErrorMessage(loops[l].err)),
                   ![1].end_time = Some(now)]
          ELSE current_test
    /\ loops' = [loops EXCEPT ![l].pc = "done"]
    /\ UNCHANGED <<metrics, last_confirmation>>
    /\ LoopUnchanged

AdvanceTime ==
    /\ ClockMayAdvance
    /\ now' = now + limits.step
    /\ ret' = NoRet
    /\ UNCHANGED <<current_test, metrics, last_confirmation, cooldown_targets,
                   cancel_tx, cancel, loops, spawned, cmd, stopped, limits, scan>>

Next ==
    \/ \E config \in Configs : StartStressTest(config)
    \/ StopSignal
    \/ StopWrite
    \/ ConfirmAlive
    \/ StatusAcquire
    \/ StatusReturn
    \/ \E l \in Loops : LoopBegin(l)
    \/ \E l \in Loops : LoopTick(l)
    \/ \E l \in Loops : LoopCancelChanged(l)
    \/ \E l \in Loops : LoopDeadMansSwitch(l)
    \/ \E l \in Loops, ok \in BOOLEAN : LoopProbe(l, ok)
    \/ \E l \in Loops : LoopPublish(l)
    \/ \E l \in Loops : LoopFinalize(l)
    \/ \E l \in Loops : LoopError(l)
    \/ AdvanceTime

Spec == Init /\ [][Next]_vars

\* The runtime runs a task that can run, a bridge command in flight runs to
\* its return, and the state lock (a fair tokio RwLock) is granted to a
\* waiter once it is free often enough.
Scheduling ==
    /\ WF_vars(StopWrite)
    /\ WF_vars(StatusReturn)
    /\ \A l \in Loops :
          /\ WF_vars(LoopError(l))
          /\ SF_vars(LoopPublish(l))
          /\ SF_vars(LoopFinalize(l))

SpecLive == Spec /\ Scheduling

\* The bridge commands against the loop of one test, over a span of time in
\* which the test can end in each of its ways.
LockProfile ==
    Profile(1, MaxSentDms, MaxSentDms, MaxTimeDms, ClockStepDms, FALSE)

InitLocks == Init /\ limits = LockProfile

SpecLocks == InitLocks /\ [][Next]_vars /\ Scheduling

(***************************************************************************)
(* validate_target_ip on its own: the addresses and malformed strings it   *)
(* is applied to.                                                          *)
(***************************************************************************)
DigitChar(n) ==
    CASE n = 0 -> "0" [] n = 1 -> "1" [] n = 2 -> "2" [] n = 3 -> "3"
      [] n = 4 -> "4" [] n = 5 -> "5" [] n = 6 -> "6" [] n = 7 -> "7"
      [] n = 8 -> "8" [] n = 9 -> "9"

RECURSIVE Decimal(_)
Decimal(n) ==
    IF n < 10 THEN <<DigitChar(n)>>
    ELSE Decimal(n \div 10) \o <<DigitChar(n % 10)>>

Dotted(a, b, c, d) ==
    Decimal(a) \o <<".">> \o Decimal(b) \o <<".">> \o Decimal(c) \o <<".">>
        \o Decimal(d)

FirstOctets == {9, 10, 11, 171, 172, 173, 191, 192, 193, 256}
SecondOctets == {15, 16, 31, 32, 167, 168, 169, 256}
ThirdOctets == {0, 255}
FourthOctets == {1, 300}

MalformedIps ==
    { <<>>,
      TargetMalformed,
      <<"n", "o", "t", ".", "a", "n", ".", "i", "p">>,
      <<"1", "0", ".", "0", ".", "0">>,
      <<"1", "0", ".", "0", ".", "0", ".", "1", ".", "1">>,
      <<"1", "0", ".", "0", ".", "0", ".", "0", "1">>,
      <<"0", "1", "0", ".", "0", ".", "0", ".", "1">>,
      <<"1", "0", ".", ".", "0", ".", "1">>,
      <<"1", "0", ".", "0", ".", "0", ".", "1", " ">>,
      <<"1", "0", ".", "0", ".", "0", ".", "1", ".">>,
      <<".", "1", "0", ".", "0", ".", "0", ".", "1">>,
      <<"1", "0", ".", "0", ".", "0", ".", "1", "0", "0", "0">>,
      <<"1", "0", ",", "0", ",", "0", ",", "1">>,
      <<"1", "9", "2", ".", "1", "6", "8", ".", "x", ".", "1">> }

IpInputs ==
    { Dotted(a, b, c, d) : a \in FirstOctets, b \in SecondOctets,
                           c \in ThirdOctets, d \in FourthOctets }
        \cup MalformedIps

NextIp == \E ip \in IpInputs : ValidateStressTarget(ip)

SpecIp == Init /\ [][NextIp]_vars

(***************************************************************************)
(* perform_scan (bridge command scan_network).  Addresses are Ipv4Addr     *)
(* values (four octets); a Device carries the address as text.             *)
(***************************************************************************)
\* the receive timeout of perform_scan, in seconds
ListenSeconds == 5

StresserVars ==
    <<now, current_test, metrics, last_confirmation, cooldown_targets,
      cancel_tx, cancel, loops, spawned, cmd, ret, stopped, limits>>

\* Ipv4Addr::to_string
to_string(ip) == Dotted(ip[1], ip[2], ip[3], ip[4])

\* the interface of the host: its address, its prefix leaving HostBits bits
SourceIps == {<<10, 0, 0, 9>>, <<10, 0, 0, 10>>}
SourceMac == "02:00:00:00:00:01"

RECURSIVE Pow2(_)
Pow2(n) == IF n = 0 THEN 1 ELSE 2 * Pow2(n - 1)

\* Ipv4Network::iter: every address of the network, from the network address
\* to the broadcast address
NetworkIter(ip) ==
    LET size == Pow2(HostBits)
        base == ip[4] - (ip[4] % size)
    IN  [i \in 1..size |-> <<ip[1], ip[2], ip[3], base + (i - 1)>>]

\* senders of the ARP replies seen on the wire
ReplySenders ==
    {<<10, 0, 0, 9>>, <<10, 0, 0, 10>>, <<10, 0, 0, 11>>, <<9, 255, 255, 254>>}
ReplyMacs == {"02:00:00:00:00:01", "b8:27:eb:00:00:02"}

\* what rx.next() yields: an ARP reply, another frame, or an error
Packets ==
    [kind : {"reply"}, sender_ip : ReplySenders, sender_mac : ReplyMacs]
        \cup {[kind |-> "other"], [kind |-> "error"]}

get_manufacturer(mac) ==
    IF mac = "b8:27:eb:00:00:02" THEN "Raspberry Pi Foundation" ELSE "Unknown"

Device(ip, mac) ==
    [ip_address |-> to_string(ip), mac_address |-> mac,
     manufacturer |-> get_manufacturer(mac)]

\* HashMap::insert and HashMap::extend
MapInsert(m, k, v) ==
    [x \in DOMAIN m \cup {k} |-> IF x = k THEN v ELSE m[x]]

MapExtend(m, other) ==
    [x \in DOMAIN m \cup DOMAIN other |->
        IF x \in DOMAIN other THEN other[x] ELSE m[x]]

\* variant: the order of the addresses is reversed
IpLess_Reversed(a, b) ==
    \E i \in 1..4 : a[i] > b[i] /\ \A j \in 1..(i - 1) : a[j] = b[j]

\* Ord of Ipv4Addr
IpLess(a, b) ==
    \E i \in 1..4 : a[i] < b[i] /\ \A j \in 1..(i - 1) : a[j] = b[j]

\* into_values().collect() followed by sort_by on the parsed addresses
RECURSIVE SortDevices(_)
SortDevices(ds) ==
    IF ds = {} THEN <<>>
    ELSE LET first == CHOOSE d \in ds : \A e \in ds :
                          ~IpLess(ParseIpv4(e.ip_address),
                                  ParseIpv4(d.ip_address))
         IN  <<first>> \o SortDevices(ds \ {first})

ScanReturnOk(found) ==
    [kind |-> "Ok",
     devices |-> SortDevices({found[k] : k \in DOMAIN found})]

ScanReturnErr(e) == [kind |-> "Err", error |-> e]

\* lines 58-98: the interface is looked up, the channel opened and the host
\* inserted into found_devices
ScanSetup(outcome, ip) ==
    /\ scan.pc = "idle"
    /\ scan' =
          IF outcome = "ok"
          THEN [scan EXCEPT !.pc = "burst", !.source_ipv4 = ip,
                            !.source_mac = SourceMac, !.next = 1,
                            !.found_devices =
                                MapInsert(EmptyMap, ip, Device(ip, SourceMac))]
          ELSE [scan EXCEPT !.pc = "returned",
                            !.result = Some(ScanReturnErr(outcome))]
    /\ UNCHANGED StresserVars

\* one iteration of the loop over network.iter(); outcome is what send_to
\* returned
ScanSend(outcome) ==
    /\ scan.pc = "burst"
    /\ scan.next <= Len(NetworkIter(scan.source_ipv4))
    /\ scan' =
          IF NetworkIter(scan.source_ipv4)[scan.next] = scan.source_ipv4
          THEN [scan EXCEPT !.next = scan.next + 1]
          ELSE IF outcome = "None"
          THEN [scan EXCEPT !.pc = "returned",
                            !.result =
                                Some(ScanReturnErr("ChannelCreationFailure"))]
          ELSE [scan EXCEPT !.next = scan.next + 1]
    /\ UNCHANGED StresserVars

\* the receive task is spawned and awaited under the timeout
ScanSpawn ==
    /\ scan.pc = "burst"
    /\ scan.next > Len(NetworkIter(scan.source_ipv4))
    /\ scan' = [scan EXCEPT !.pc = "listen", !.receiver = "reading"]
    /\ UNCHANGED StresserVars

\* one iteration of the loop of the receive task
ReceiverNext(p) ==
    /\ scan.receiver = "reading"
    /\ scan.pc = "listen"
    /\ scan.packets < MaxPackets
    /\ scan' =
          IF p.kind = "error"
          THEN [scan EXCEPT !.receiver = "ended",
                            !.packets = scan.packets + 1]
          ELSE IF p.kind = "reply" /\ p.sender_ip \notin DOMAIN scan.devices
          THEN [scan EXCEPT !.devices =
                                MapInsert(scan.devices, p.sender_ip,
                                          Device(p.sender_ip, p.sender_mac)),
                            !.packets = scan.packets + 1]
          ELSE [scan EXCEPT !.packets = scan.packets + 1]
    /\ UNCHANGED StresserVars

\* a second passes while perform_scan waits for the receive task
ScanWait ==
    /\ scan.pc = "listen"
    /\ scan.receiver = "reading"
    /\ scan.elapsed < ListenSeconds
    /\ scan' = [scan EXCEPT !.elapsed = scan.elapsed + 1]
    /\ UNCHANGED StresserVars

\* the receive task returned its map before the deadline
ScanJoin ==
    /\ scan.pc = "listen"
    /\ scan.receiver = "ended"
    /\ LET found == MapExtend(scan.found_devices, scan.devices)
       IN  scan' = [scan EXCEPT !.pc = "returned", !.found_devices = found,
                                !.result = Some(ScanReturnOk(found))]
    /\ UNCHANGED StresserVars

\* the deadline expired with the receive task still reading
ScanTimeout ==
    /\ scan.pc = "listen"
    /\ scan.receiver = "reading"
    /\ scan.elapsed >= ListenSeconds
    /\ scan' = [scan EXCEPT !.pc = "returned", !.receiver = "abandoned",
                            !.timed_out = TRUE,
                            !.result = Some(ScanReturnOk(scan.found_devices))]
    /\ UNCHANGED StresserVars

SetupOutcomes ==
    {"ok", "DefaultInterfaceNotFound", "NoActiveInterface",
     "ChannelCreationFailure", "IoError"}

NextScan ==
    \/ \E outcome \in SetupOutcomes, ip \in SourceIps : ScanSetup(outcome, ip)
    \/ \E outcome \in {"Ok", "Err", "None"} : ScanSend(outcome)
    \/ ScanSpawn
    \/ \E p \in Packets : ReceiverNext(p)
    \/ ScanWait
    \/ ScanJoin
    \/ ScanTimeout

SpecScan == Init /\ [][NextScan]_vars

(***************************************************************************)
(*                              Properties                                 *)
(***************************************************************************)
Live(l) == loops[l].pc \notin {"idle", "done"}

StartReturned(kind) == ret.op = "start" /\ ret.res.kind = kind

EngineState ==
    <<current_test, metrics, last_confirmation, cooldown_targets, cancel_tx,
      cancel, loops, spawned>>

ConfigOf(test) ==
    Config(test.target_ip, test.test_type, test.intensity,
           test.duration_seconds)

\* C1: start_stress_test never succeeds while a task spawned by an earlier
\* start has not yet exited.
C1_SingleFlight ==
    StartReturned("Ok") =>
        \A l \in Loops : l # spawned => ~Live(l)

\* C2: once stop_current_test has returned for a Running test, the status
\* reported is Completed and end_time and final_metrics are set, until the
\* next successful start.
C2_StoppedStaysCompleted ==
    stopped = "yes" =>
        /\ current_test[1].status = "Completed"
        /\ current_test[1].end_time # None
        /\ current_test[1].final_metrics # None
        /\ (ret.op = "status" => ret.res = "Completed")

\* C3: a current test that is Completed or Failed has end_time and
\* final_metrics set.
C3_TerminalHasEndAndMetrics ==
    (current_test # None /\ current_test[1].status \in {"Completed", "Failed"})
        => /\ current_test[1].end_time # None
           /\ current_test[1].final_metrics # None

\* C4: the case of the claim: start_stress_test is called again with the
\* configuration of the current test less than min_cooldown_seconds after
\* that test was started.
C4_Restart(config) ==
    /\ ret'.op = "start"
    /\ ret'.config = config
    /\ current_test # None
    /\ config = ConfigOf(current_test[1])
    /\ now - current_test[1].start_time < 5

C5_ReceivedAtMostSent ==
    /\ metrics.packets_received <= metrics.packets_sent
    /\ (current_test # None /\ current_test[1].final_metrics # None) =>
          current_test[1].final_metrics[1].packets_received
              <= current_test[1].final_metrics[1].packets_sent

C5_Witness ==
    /\ metrics.packets_received > 0
    /\ metrics.packets_received < metrics.packets_sent
    /\ current_test # None
    /\ current_test[1].final_metrics = Some(metrics)

\* C6: validate_test_config answers with the error of the first failing
\* check in the order target, rate, duration, running test, cooldown, and
\* with Ok when none fails.
C6_Expected(config) ==
    IF config.target_ip \notin {TargetA, TargetB} THEN "InvalidTargetIp"
    ELSE IF (CASE config.intensity = "Low" -> 10
               [] config.intensity = "Medium" -> 50
               [] config.intensity = "High" -> 100) > 1000
    THEN "RateLimitExceeded"
    ELSE IF config.duration_seconds > 300 THEN "DurationTooLong"
    ELSE IF current_test # None /\ current_test[1].status = "Running"
    THEN "TestAlreadyRunning"
    ELSE IF \E ip \in DOMAIN cooldown_targets :
               ip = config.target_ip /\ now - cooldown_targets[ip] < 5
    THEN "CooldownActive"
    ELSE "Ok"

C6_ValidationOrder ==
    [][ret'.op = "start" =>
          \A config \in Configs :
              ret'.config = config => ret'.res.kind = C6_Expected(config)]_vars

C6_Witness ==
    /\ StartReturned("DurationTooLong")
    /\ current_test # None
    /\ current_test[1].status = "Running"
    /\ current_test[1].target_ip = TargetB

\* C7: a start_stress_test that fails validation spawns nothing and leaves
\* the current test, the metrics, last_confirmation, cooldown_targets and
\* the cancellation channel as they were.
C7_RejectedStartChangesNothing ==
    [][(ret'.op = "start" /\ ret'.res.kind # "Ok") =>
          UNCHANGED EngineState]_vars

C7_Witness ==
    /\ StartReturned("TestAlreadyRunning")
    /\ cancel_tx # 0
    /\ \E l \in Loops : loops[l].pc = "probe"

\* C8: validate_target_ip succeeds exactly on the dotted form of an address
\* a.b.c.d with a = 10, or a = 172 and 16 <= b <= 31, or a = 192 and
\* b = 168, and fails with InvalidTargetIp on everything else.
C8_PrivateDotted(ip) ==
    \E a \in FirstOctets \cap 0..255, b \in SecondOctets \cap 0..255,
       c \in ThirdOctets \cap 0..255, d \in FourthOctets \cap 0..255 :
        /\ ip = Dotted(a, b, c, d)
        /\ \/ a = 10
           \/ a = 172 /\ 16 <= b /\ b <= 31
           \/ a = 192 /\ b = 168

C8_ValidateTargetIp ==
    ret.op = "validate" =>
        ret.res = IF C8_PrivateDotted(ret.ip) THEN "Ok" ELSE "InvalidTargetIp"

C8_Witness ==
    /\ ret.op = "validate"
    /\ ret.ip = Dotted(172, 31, 255, 1)
    /\ ret.res = "Ok"

\* C9: a tick that finds last_confirmation more than
\* dead_mans_switch_interval_seconds old sends no probe and leaves the loop
\* with DeadMansSwitchTriggered, any other tick goes on to its probe, and
\* once the task has handled that error the test is Failed with the dead
\* man's switch message.
C9_DeadMansSwitch ==
    [][\A l \in Loops :
          /\ (loops[l].pc = "dms" /\ loops'[l].pc # "dms") =>
                IF now - last_confirmation > 30
                THEN /\ loops'[l].pc = "error"
                     /\ loops'[l].err = "DeadMansSwitchTriggered"
                     /\ loops'[l].packets_sent = loops[l].packets_sent
                ELSE loops'[l].pc = "probe"
          /\ (/\ loops[l].pc = "error"
              /\ loops[l].err = "DeadMansSwitchTriggered"
              /\ loops'[l].pc = "done") =>
                /\ current_test'[1].status = "Failed"
                /\ current_test'[1].error_message =
                      Some("Dead man's switch triggered - UI confirmation required")
       ]_vars

\* C10: when the spawned task ends with an error, the current test becomes
\* Failed with error_message set to the message of the error and end_time
\* set.
C10_ErrorMarksFailed ==
    [][\A l \in Loops :
          (loops[l].pc = "error" /\ loops'[l].pc = "done") =>
              /\ current_test'[1].status = "Failed"
              /\ current_test'[1].error_message = Some(ErrorMessage(loops[l].err))
              /\ current_test'[1].end_time # None]_vars

\* C11: a stop_current_test that returns for a test an earlier
\* stop_current_test already completed, and that still is as that call left
\* it (Completed, no error message), returns Ok and leaves the status,
\* end_time, final_metrics and error_message of the test as they are.
C11_StopIdempotent ==
    [][(/\ cmd = "stop"
        /\ cmd' = "idle"
        /\ stopped = "yes"
        /\ current_test[1].status = "Completed"
        /\ current_test[1].error_message = None) =>
            /\ ret' = [op |-> "stop", res |-> "Ok"]
            /\ current_test'[1].status = current_test[1].status
            /\ current_test'[1].end_time = current_test[1].end_time
            /\ current_test'[1].final_metrics = current_test[1].final_metrics
            /\ current_test'[1].error_message = current_test[1].error_message
       ]_vars

\* C12: a tick leaves the loop for packet loss exactly when, after its
\* probe, packets_sent > 100 and 10 * packets_received < packets_sent; when
\* every probe failed that is at packets_sent = 101; and the loop that left
\* this way marks the test Completed with no error message.
C12_CircuitBreaker ==
    [][\A l \in Loops :
          /\ (/\ loops[l].pc \in {"probe", "publish"}
              /\ loops'[l].pc \in {"select", "finalize"}) =>
                /\ (loops'[l].pc = "finalize") <=>
                      (/\ loops'[l].packets_sent > 100
                       /\ 10 * loops'[l].packets_received
                             < loops'[l].packets_sent)
                /\ (loops'[l].pc = "finalize"
                      /\ loops'[l].packets_received = 0) =>
                         loops'[l].packets_sent = 101
          /\ (/\ loops[l].pc = "finalize"
              /\ loops'[l].pc = "done"
              /\ loops[l].packets_sent > 100) =>
                /\ current_test'[1].status = "Completed"
                /\ current_test'[1].error_message = None
                /\ current_test'[1].final_metrics =
                      Some([packets_sent |-> loops[l].packets_sent,
                            packets_received |-> loops[l].packets_received])
       ]_vars

C12_Witness ==
    /\ \E l \in Loops :
          /\ loops[l].pc = "done"
          /\ loops[l].packets_sent = 101
          /\ loops[l].packets_received = 0
    /\ current_test # None
    /\ current_test[1].status = "Completed"
    /\ current_test[1].error_message = None
    /\ current_test[1].final_metrics =
          Some([packets_sent |-> 101, packets_received |-> 0])

ScanReturnedOk == scan.result # None /\ scan.result[1].kind = "Ok"

\* the address of an entry of the returned list, as a number
EntryNum(d) ==
    LET o == ParseIpv4(d.ip_address)
    IN  ((o[1] * 256 + o[2]) * 256 + o[3]) * 256 + o[4]

\* C13: the list a successful perform_scan returns has pairwise distinct
\* addresses and is in ascending numeric order of the addresses.
C13_UniqueAndSorted ==
    ScanReturnedOk =>
        LET list == scan.result[1].devices
        IN  \A i, j \in 1..Len(list) :
               i < j => /\ list[i].ip_address # list[j].ip_address
                        /\ EntryNum(list[i]) < EntryNum(list[j])

C13_Witness ==
    /\ ScanReturnedOk
    /\ scan.source_ipv4 = <<10, 0, 0, 10>>
    /\ scan.packets = MaxPackets
    /\ Len(scan.result[1].devices) = 3
    /\ scan.result[1].devices[1].ip_address = Dotted(9, 255, 255, 254)
    /\ scan.result[1].devices[2].ip_address = Dotted(10, 0, 0, 9)
    /\ scan.result[1].devices[3].ip_address = Dotted(10, 0, 0, 10)

\* C14: the list a successful perform_scan returns holds the host itself,
\* with its own address and MAC, as its first entry.
C14_HostFirst ==
    ScanReturnedOk =>
        /\ Len(scan.result[1].devices) >= 1
        /\ scan.result[1].devices[1] =
              Device(scan.source_ipv4, scan.source_mac)

\* C15: when the deadline expires with the receive task still reading, every
\* device the task had recorded is in the returned list.
C15_TimeoutKeepsCollected ==
    (ScanReturnedOk /\ scan.timed_out) =>
        \A k \in DOMAIN scan.devices :
            \E i \in 1..Len(scan.result[1].devices) :
                scan.result[1].devices[i] = scan.devices[k]

\* C16: whatever send_to returns for a frame of the burst, the burst goes on
\* with the next address and perform_scan does not return an error.
C16_SendFailureNotFatal ==
    [][scan.pc = "burst" =>
          /\ scan'.pc \in {"burst", "listen"}
          /\ scan'.result = None]_vars

\* C17: a start rejected for the cooldown reports CooldownActive(n) with
\* 1 <= n <= 5.
C17_CooldownRemaining ==
    StartReturned("CooldownActive") => (ret.res.n >= 1 /\ ret.res.n <= 5)

C18_Pps(intensity) ==
    CASE intensity = "Low" -> 10
      [] intensity = "Medium" -> 50
      [] intensity = "High" -> 100

C18_PeriodMs(intensity) ==
    CASE intensity = "Low" -> 100
      [] intensity = "Medium" -> 20
      [] intensity = "High" -> 10

\* C18: Low, Medium and High map to 10, 50 and 100 packets per second, none
\* above the limit of 1000, so no start is rejected for its rate; the tick
\* period is 100, 20 and 10 ms, and a loop has sent its k-th probe no
\* earlier than k - 1 periods after its start.
C18_IntensityPacing ==
    /\ \A i \in {"Low", "Medium", "High"} :
          /\ to_packets_per_second(i) = C18_Pps(i)
          /\ TickPeriodMs(to_packets_per_second(i)) = C18_PeriodMs(i)
          /\ to_packets_per_second(i) <= 1000
    /\ ~StartReturned("RateLimitExceeded")
    /\ \A l \in Loops :
          loops[l].packets_sent > 0 =>
              (loops[l].packets_sent - 1) * C18_PeriodMs(loops[l].config.intensity)
                  <= (now - loops[l].start_time) * 1000

C18_Witness ==
    \E l \in Loops :
        /\ loops[l].config.intensity = "High"
        /\ loops[l].packets_sent = 101
        /\ now - loops[l].start_time = 1

\* C19: the error_message of the current test is set only if its status is
\* Failed.
C19_ErrorOnlyIfFailed ==
    (current_test # None /\ current_test[1].error_message # None) =>
        current_test[1].status = "Failed"

\* C20: a current test, once present, is never absent again; its status is
\* Running, Completed or Failed; a Completed or Failed test stays Completed
\* or Failed until a successful start_stress_test replaces it; and only a
\* successful start_stress_test produces a Running test.
C20_TerminalStays ==
    [][/\ current_test # None => current_test' # None
       /\ current_test' # None =>
             current_test'[1].status \in {"Running", "Completed", "Failed"}
       /\ (/\ current_test # None
           /\ current_test[1].status \in {"Completed", "Failed"}
           /\ ~(ret'.op = "start" /\ ret'.res.kind = "Ok")) =>
             /\ current_test'[1].status \in {"Completed", "Failed"}
             /\ current_test'[1].test_id = current_test[1].test_id
       /\ (/\ current_test' # None
           /\ current_test'[1].status = "Running"
           /\ (current_test = None \/ current_test[1].status # "Running")) =>
             /\ ret'.op = "start"
             /\ ret'.res.kind = "Ok"
             /\ current_test'[1].test_id = spawned'
             /\ spawned' = spawned + 1
      ]_vars

C20_Witness ==
    /\ current_test # None
    /\ current_test[1].test_id = 2
    /\ current_test[1].status = "Failed"
    /\ \E l \in Loops : l # 2 /\ loops[l].pc = "done"

C22_FirstDeviceKept ==
    [][/\ \A k \in DOMAIN scan.devices :
             /\ k \in DOMAIN scan'.devices
             /\ scan'.devices[k] = scan.devices[k]
       /\ (scan'.result # None /\ scan'.result[1].kind = "Ok") =>
             \A k \in DOMAIN scan.found_devices :
                 \E i \in 1..Len(scan'.result[1].devices) :
                     scan'.result[1].devices[i] = scan.found_devices[k]
      ]_vars

\* C23: a test whose loop has left its select loop, by the normal exit or
\* with an error, does not stay Running: it becomes Completed or Failed (or
\* is replaced by a later test).
C23_EventuallyTerminal ==
    \A l \in Loops :
        (/\ spawned = l
         /\ loops[l].pc \in {"finalize", "error"}
         /\ current_test[1].status = "Running")
            ~> (\/ spawned # l
                \/ current_test[1].status \in {"Completed", "Failed"})

\* C24: an entry of cooldown_targets is never removed; cooldown_targets
\* changes only in a successful start_stress_test, and then only in the
\* entry of the started target, which becomes the instant of the start.
C24_CooldownWrittenAtStart ==
    [][/\ \A ip \in DOMAIN cooldown_targets : ip \in DOMAIN cooldown_targets'
       /\ IF ret'.op = "start" /\ ret'.res.kind = "Ok"
          THEN /\ DOMAIN cooldown_targets' =
                     DOMAIN cooldown_targets \cup {ret'.config.target_ip}
               /\ cooldown_targets'[ret'.config.target_ip] = now'
               /\ cooldown_targets'[ret'.config.target_ip] =
                     current_test'[1].start_time
               /\ \A ip \in DOMAIN cooldown_targets :
                     ip # ret'.config.target_ip =>
                         cooldown_targets'[ip] = cooldown_targets[ip]
          ELSE cooldown_targets' = cooldown_targets
      ]_vars

C24_Witness ==
    /\ DOMAIN cooldown_targets = {TargetA, TargetB}
    /\ cooldown_targets[TargetA] = 0
    /\ cooldown_targets[TargetB] = 0
    /\ current_test # None
    /\ current_test[1].target_ip = TargetB
    /\ current_test[1].status = "Completed"
    /\ StartReturned("CooldownActive")

\* C25: the exit of a spawned loop (its finalisation or its error handler)
\* leaves the TestResult of a test it was not started for unchanged.
C25_ExitKeepsOtherTest ==
    [][\A l \in Loops :
          (/\ loops[l].pc \in {"finalize", "error"}
           /\ loops'[l].pc = "done"
           /\ current_test # None
           /\ current_test[1].test_id # l)
              => current_test' = current_test
      ]_vars

\* C26: no deadlock between the bridge commands and the test loop: a command
\* that holds the engine mutex eventually returns and frees it, and a loop
\* waiting for the write lock on the state (to publish the metrics or to
\* finalise) eventually gets it.
C26_DeadlockFree ==
    /\ (cmd # "idle") ~> (cmd = "idle")
    /\ \A l \in Loops :
          (loops[l].pc \in {"publish", "finalize"})
              ~> (loops[l].pc \notin {"publish", "finalize"})

C26_Witness ==
    /\ cmd = "status"
    /\ \E l \in Loops :
          /\ loops[l].pc = "publish"
          /\ ~cancel[l]
          /\ current_test # None
          /\ current_test[1].test_id = l
          /\ current_test[1].status = "Running"

====
